---- MODULE Spec2Model ----
(***************************************************************************)
(* Model of the point-cloud Player of src/data/pointcloud.js: asynchronous *)
(* loading of the frames of a scene under a session counter                *)
(* (event_identifier), normalisation of the loaded frames, and the         *)
(* setTimeout-driven playback loop.                                        *)
(*                                                                         *)
(* JavaScript values are modelled as follows.  Array indices are 0-based   *)
(* as in the source (FrameAt reads element i of an array).  The values     *)
(* `undefined` and NaN of number-typed slots are the integers `undefined`  *)
(* and `NaN` below, outside the range of every timestamp and index of the  *)
(* model; the arithmetic and comparison helpers treat them as JavaScript   *)
(* does.  `undefined` in a string-typed slot is the string undefined_s.    *)
(***************************************************************************)
EXTENDS Integers, Sequences, FiniteSets, Bags, TLC

(***************************************************************************)
(* Bounds of the model.                                                    *)
(***************************************************************************)
MaxFrames == 3
MaxEvent == 2
MaxPending == MaxFrames
MaxTimers == 2
NormMaxTimestamp == 9

(***************************************************************************)
(* JavaScript value helpers.                                               *)
(***************************************************************************)
undefined == -1000
NaN == -999
undefined_s == "undefined"
POINT_CLOUD_NAME == "point_cloud"

IsNumber(v) == v # undefined /\ v # NaN

\* a - b on JavaScript numbers: NaN as soon as one operand is undefined or NaN
Minus(a, b) == IF IsNumber(a) /\ IsNumber(b) THEN a - b ELSE NaN

\* a < b on JavaScript numbers: false as soon as one operand is undefined or NaN
LessThan(a, b) == IsNumber(a) /\ IsNumber(b) /\ a < b

\* a % n on JavaScript numbers (the sign of the result is the sign of a)
Remainder(a, n) ==
    IF ~IsNumber(a) \/ ~IsNumber(n) \/ n = 0 THEN NaN
    ELSE IF a < 0 THEN 0 - ((0 - a) % n) ELSE a % n

\* element i (0-based) of the array fs
FrameAt(fs, i) == fs[i + 1]

(***************************************************************************)
(* compareByTimestamp and Array.prototype.sort.                            *)
(***************************************************************************)
\* faulty variant: the comparison with its two results exchanged
compareByTimestampReversed(a, b) ==
    IF LessThan(a.timestamp, b.timestamp) THEN 1
    ELSE IF LessThan(b.timestamp, a.timestamp) THEN -1
    ELSE 0

compareByTimestamp(a, b) ==
    IF LessThan(a.timestamp, b.timestamp) THEN -1
    ELSE IF LessThan(b.timestamp, a.timestamp) THEN 1
    ELSE 0

\* position at which x is inserted into the sorted array s: after every
\* element that does not compare greater than x (the sort is stable)
RECURSIVE InsertPosition(_, _, _)
InsertPosition(s, x, k) ==
    IF k > Len(s) THEN k
    ELSE IF compareByTimestamp(s[k], x) > 0 THEN k
    ELSE InsertPosition(s, x, k + 1)

InsertSorted(s, x) ==
    LET k == InsertPosition(s, x, 1)
    IN  SubSeq(s, 1, k - 1) \o <<x>> \o SubSeq(s, k, Len(s))

RECURSIVE SortFrom(_, _, _)
SortFrom(done, s, k) ==
    IF k > Len(s) THEN done ELSE SortFrom(InsertSorted(done, s[k]), s, k + 1)

\* faulty variant: the frames are left in the order of arrival
sortNothing(fs) == fs

\* this.frames.sort(compareByTimestamp)
sort(fs) == SortFrom(<<>>, fs, 1)

(***************************************************************************)
(* normalizeTimeStamps and normalizeFrames.                                *)
(***************************************************************************)
DEFAULT_DURATION == 1

\* faulty variant: the offset is taken from the last frame instead of the first
normalizeTimeStampsLastOffset(fs) ==
    IF Len(fs) = 0 THEN fs
    ELSE LET offset == FrameAt(fs, Len(fs) - 1).timestamp
             rebased == [i \in 1..Len(fs) |->
                            [fs[i] EXCEPT !.timestamp = Minus(@, offset)]]
         IN  [i \in 1..Len(fs) |->
                [rebased[i] EXCEPT !.duration =
                    IF i < Len(fs)
                    THEN Minus(rebased[i + 1].timestamp, rebased[i].timestamp)
                    ELSE DEFAULT_DURATION]]

\* faulty variant: the duration is computed as first - second
normalizeTimeStampsFirstMinusSecond(fs) ==
    IF Len(fs) = 0 THEN fs
    ELSE LET offset == FrameAt(fs, 0).timestamp
             rebased == [i \in 1..Len(fs) |->
                            [fs[i] EXCEPT !.timestamp = Minus(@, offset)]]
         IN  [i \in 1..Len(fs) |->
                [rebased[i] EXCEPT !.duration =
                    IF i < Len(fs)
                    THEN Minus(rebased[i].timestamp, rebased[i + 1].timestamp)
                    ELSE DEFAULT_DURATION]]

normalizeTimeStamps(fs) ==
    IF Len(fs) = 0 THEN fs
    ELSE LET offset == FrameAt(fs, 0).timestamp
             rebased == [i \in 1..Len(fs) |->
                            [fs[i] EXCEPT !.timestamp = Minus(@, offset)]]
         IN  [i \in 1..Len(fs) |->
                [rebased[i] EXCEPT !.duration =
                    IF i < Len(fs)
                    THEN Minus(rebased[i + 1].timestamp, rebased[i].timestamp)
                    ELSE DEFAULT_DURATION]]

normalizeFrames(fs) == normalizeTimeStamps(sort(fs))

(***************************************************************************)
(* State.                                                                  *)
(***************************************************************************)
VARIABLES
    event_identifier,         \* Player.event_identifier
    is_playing,               \* Player.is_playing
    loaded,                   \* Player.loaded
    frames,                   \* Player.frames
    current_frame,            \* Player.current_frame (0-based or undefined)
    displayed,                \* objects named POINT_CLOUD_NAME in the renderer scene
    pending,                  \* loads handed to the loader and not resolved yet
    timers,                   \* bag of the setTimeout timers armed and not fired yet
    status_log,               \* texts passed to status_callback by the last handler
    request,                  \* history: the last load command and its arguments
    delivered,                \* history: indices of the results of the active session delivered so far
    last                      \* history: the last handler run, its result, and the timer that fired

vars == <<event_identifier, is_playing, loaded, frames, current_frame,
          displayed, pending, timers, status_log, request, delivered, last>>

(***************************************************************************)
(* Inputs of the commands: scene descriptors as the controlling layer      *)
(* passes them (name, list of {timestamp, clouds}, type identifier).       *)
(* `clouds` is a record of its `length` property and of its entries per    *)
(* type; a mapping has no `length` (undefined), an array has one.          *)
(***************************************************************************)
SceneNames == {"s"}
TypeIdentifiers == {"color"}
SinglePaths == {"pointclouds/image.pcd"}

PathOfIndex(i) == "f" \o ToString(i) \o ".pcd"

CloudsWith(p) ==
    [length |-> undefined, entries |-> [t \in TypeIdentifiers |-> [path |-> p]]]
NoCloudsMapping ==
    [length |-> undefined, entries |-> [t \in {} |-> [path |-> undefined_s]]]
NoCloudsArray ==
    [length |-> 0, entries |-> [t \in {} |-> [path |-> undefined_s]]]

\* timestamps with growing gaps, starting after 0: 1, 3, 6, 10, ...
Stamp(i) == ((i + 1) * (i + 2)) \div 2

Ascending(n) == [i \in 1..n |-> Stamp(i - 1)]
\* distinct timestamps, the two earliest frames listed in the opposite order
Swapped(n) == [i \in 1..n |-> IF i = 1 THEN Stamp(1)
                              ELSE IF i = 2 THEN Stamp(0) ELSE Stamp(i - 1)]
\* the two earliest frames with the same timestamp
Tied(n) == [i \in 1..n |-> IF i = 1 THEN Stamp(1) ELSE Stamp(i - 1)]

\* scenes of every length with distinct timestamps, and the longest with a tie
TimestampLists == {Swapped(n) : n \in 0..MaxFrames} \cup {Tied(MaxFrames)}

SceneWith(ts) ==
    [i \in 1..Len(ts) |->
        [timestamp |-> ts[i], clouds |-> CloudsWith(PathOfIndex(i - 1))]]

\* scenes in which every frame has a cloud of the selected type, and scenes
\* in which the first or the second frame has no cloud at all
SceneFrameLists ==
    {SceneWith(ts) : ts \in TimestampLists}
    \cup {[SceneWith(Ascending(MaxFrames)) EXCEPT ![k].clouds = c] :
            k \in 1..2, c \in {NoCloudsMapping, NoCloudsArray}}

(***************************************************************************)
(* Constructor.                                                            *)
(***************************************************************************)
NoRequest(op) ==
    [op |-> op, name |-> undefined_s, frames |-> <<>>,
     type_identifier |-> undefined_s, issued |-> 0]

Init ==
    /\ event_identifier = 0
    /\ is_playing = FALSE
    /\ loaded = FALSE
    /\ frames = <<>>
    /\ current_frame = undefined
    /\ displayed = <<>>
    /\ pending = {}
    /\ timers = EmptyBag
    /\ status_log = <<>>
    /\ request = NoRequest("constructor")
    /\ delivered = {}
    /\ last = [op |-> "constructor", arg |-> undefined, result |-> undefined]

(***************************************************************************)
(* Renderer: the objects named POINT_CLOUD_NAME of the scene.              *)
(***************************************************************************)
\* PointCloudRenderer.removePointCloud: removes the first object of that name
removePointCloud(objects) == IF objects = <<>> THEN objects ELSE Tail(objects)

\* PointCloudRenderer.addToScene
addToScene(objects, points) == Append(objects, points)

\* the payload the loader hands to the callback of a load request
PointsOf(req) ==
    [full_path |-> req.full_path, event_identifier |-> req.meta.event_identifier]

(***************************************************************************)
(* pause, reset.                                                           *)
(***************************************************************************)
\* history only: every timer armed before a pause() is marked
Marked(timer) == [timer EXCEPT !.paused = TRUE]

MarkPaused(ts) ==
    [timer \in {Marked(t) : t \in BagToSet(ts)} |->
        CopiesIn(timer, ts) + CopiesIn([timer EXCEPT !.paused = FALSE], ts)]

\* the assignments of pause(): it clears the flag and leaves the timers armed
pauseTimers(ts) == MarkPaused(ts)

pause ==
    /\ is_playing' = FALSE
    /\ timers' = pauseTimers(timers)
    /\ status_log' = <<>>
    /\ last' = [op |-> "pause", arg |-> undefined, result |-> undefined]
    /\ UNCHANGED <<event_identifier, loaded, frames, current_frame,
                   displayed, pending, request,
                   delivered>>

\* faulty variant: reset() without its call of pause()
resetPlayerKeepsPlaying ==
    /\ UNCHANGED <<is_playing, timers>>
    /\ loaded' = FALSE
    /\ current_frame' = undefined
    /\ frames' = <<>>
    /\ event_identifier' = event_identifier + 1
    /\ displayed' = removePointCloud(displayed)
    /\ delivered' = {}

\* faulty variant: reset() without the increment of event_identifier
resetPlayerSameEvent ==
    /\ is_playing' = FALSE
    /\ timers' = pauseTimers(timers)
    /\ loaded' = FALSE
    /\ current_frame' = undefined
    /\ frames' = <<>>
    /\ event_identifier' = event_identifier
    /\ displayed' = removePointCloud(displayed)
    /\ delivered' = {}

\* faulty variant: reset() without this.frames = []
resetPlayerKeepsFrames ==
    /\ is_playing' = FALSE
    /\ timers' = pauseTimers(timers)
    /\ loaded' = FALSE
    /\ current_frame' = undefined
    /\ frames' = frames
    /\ event_identifier' = event_identifier + 1
    /\ displayed' = removePointCloud(displayed)
    /\ delivered' = {}

\* the assignments of reset(), shared by every command that calls it
resetPlayer ==
    /\ is_playing' = FALSE
    /\ timers' = pauseTimers(timers)
    /\ loaded' = FALSE
    /\ current_frame' = undefined
    /\ frames' = <<>>
    /\ event_identifier' = event_identifier + 1
    /\ displayed' = removePointCloud(displayed)
    /\ delivered' = {}

reset ==
    /\ event_identifier < MaxEvent
    /\ resetPlayer
    /\ status_log' = <<>>
    /\ request' = NoRequest("reset")
    /\ last' = [op |-> "reset", arg |-> undefined, result |-> undefined]
    /\ UNCHANGED pending

(***************************************************************************)
(* loadPointClouds, loadSinglePointCloud.                                  *)
(***************************************************************************)
LoadRequest(full_path, meta) ==
    [full_path |-> full_path, name |-> POINT_CLOUD_NAME, meta |-> meta]

\* the for loop of loadPointClouds from `index` on; acc collects the loads
\* issued, the status texts and how the loop ended
RECURSIVE loadLoop(_, _, _, _, _, _)
loadLoop(name, frames_in, type_identifier, eid, index, acc) ==
    IF index >= Len(frames_in) THEN acc
    ELSE LET frame == FrameAt(frames_in, index)
             clouds == frame.clouds
         IN  IF clouds.length = 0
             THEN [acc EXCEPT !.status = Append(@, "No clouds in frame.")]
             ELSE IF type_identifier \notin DOMAIN clouds.entries
             THEN [acc EXCEPT !.result = "TypeError"]
             ELSE LET path == clouds.entries[type_identifier].path
                      meta == [event_identifier |-> eid,
                               scene |-> name,
                               index |-> index,
                               num_frames |-> Len(frames_in),
                               timestamp |-> frame.timestamp,
                               path |-> path]
                  IN  loadLoop(name, frames_in, type_identifier, eid, index + 1,
                               [acc EXCEPT
                                  !.status = Append(@, "Loading point clouds..."),
                                  !.issued = @ \cup
                                      {LoadRequest("pointclouds/" \o path, meta)}])

\* faulty variant: loadPointClouds without the test 0 == frames.length
loadPointCloudsNoEmptyTest(name, frames_in, type_identifier) ==
    /\ event_identifier < MaxEvent
    /\ Cardinality(pending) + Len(frames_in) <= MaxPending
    /\ resetPlayer
    /\ LET start == [issued |-> {}, status |-> <<"Loading point clouds.">>,
                     result |-> undefined_s]
           run == loadLoop(name, frames_in, type_identifier,
                           event_identifier + 1, 0, start)
       IN  /\ pending' = pending \cup run.issued
           /\ status_log' = run.status
           /\ request' = [op |-> "loadPointClouds", name |-> name,
                          frames |-> frames_in,
                          type_identifier |-> type_identifier,
                          issued |-> Cardinality(run.issued)]
           /\ last' = [op |-> "loadPointClouds", arg |-> undefined,
                       result |-> run.result]

loadPointClouds(name, frames_in, type_identifier) ==
    /\ event_identifier < MaxEvent
    /\ Cardinality(pending) + Len(frames_in) <= MaxPending
    /\ resetPlayer
    /\ LET start == [issued |-> {}, status |-> <<"Loading point clouds.">>,
                     result |-> undefined_s]
           run == IF Len(frames_in) = 0
                  THEN [start EXCEPT !.status = Append(@, "No frames in scene.")]
                  ELSE loadLoop(name, frames_in, type_identifier,
                                event_identifier + 1, 0, start)
       IN  /\ pending' = pending \cup run.issued
           /\ status_log' = run.status
           /\ request' = [op |-> "loadPointClouds", name |-> name,
                          frames |-> frames_in,
                          type_identifier |-> type_identifier,
                          issued |-> Cardinality(run.issued)]
           /\ last' = [op |-> "loadPointClouds", arg |-> undefined,
                       result |-> run.result]

loadSinglePointCloud(full_path) ==
    /\ event_identifier < MaxEvent
    /\ Cardinality(pending) + 1 <= MaxPending
    /\ resetPlayer
    /\ LET meta == [event_identifier |-> event_identifier + 1,
                    scene |-> undefined_s,
                    index |-> undefined,
                    num_frames |-> 1,
                    timestamp |-> undefined,
                    path |-> undefined_s]
       IN  pending' = pending \cup {LoadRequest(full_path, meta)}
    /\ status_log' = <<>>
    /\ request' = [NoRequest("loadSinglePointCloud") EXCEPT !.issued = 1]
    /\ last' = [op |-> "loadSinglePointCloud", arg |-> undefined,
                result |-> undefined_s]

(***************************************************************************)
(* showCurrentFrame, nextFrame, previousFrame.                             *)
(***************************************************************************)
\* the status text of showCurrentFrame
FrameStatus(c, fs) ==
    "Frame " \o ToString(c + 1) \o " of " \o ToString(Len(fs)) \o "."

\* c is an index of the array fs
InRange(c, fs) == c \in 0..(Len(fs) - 1)

\* faulty variant: showCurrentFrame without its call of addToScene
ShownObjectsRemovedOnly(objects, c, fs) == removePointCloud(objects)

\* the renderer scene after showCurrentFrame; outside the array
\* this.frames[c] is undefined and reading its points throws, after the
\* displayed cloud was removed
ShownObjects(objects, c, fs) ==
    IF InRange(c, fs)
    THEN addToScene(removePointCloud(objects), FrameAt(fs, c).points)
    ELSE removePointCloud(objects)

\* faulty variant: the step forward without the remainder
nextFrameIndexNoWrap(c, n) == c + 1

nextFrameIndex(c, n) == Remainder(c + 1, n)

\* faulty variant: the step back without the added length
previousFrameIndexNoWrap(c, n) == Remainder(c - 1, n)

previousFrameIndex(c, n) == Remainder(n + c - 1, n)

\* the guard shared by nextFrame and previousFrame
CannotStep(c, ld) == c = undefined \/ ~ld

nextFrame ==
    /\ IF CannotStep(current_frame, loaded)
       THEN /\ UNCHANGED <<current_frame, displayed>>
            /\ status_log' = <<>>
       ELSE LET c == nextFrameIndex(current_frame, Len(frames))
            IN  /\ current_frame' = c
                /\ displayed' = ShownObjects(displayed, c, frames)
                /\ status_log' = <<FrameStatus(c, frames)>>
    /\ last' = [op |-> "nextFrame", arg |-> undefined, result |-> undefined]
    /\ UNCHANGED <<event_identifier, is_playing, loaded, frames,
                   pending, timers, request,
                   delivered>>

previousFrame ==
    /\ IF CannotStep(current_frame, loaded)
       THEN /\ UNCHANGED <<current_frame, displayed>>
            /\ status_log' = <<>>
       ELSE LET c == previousFrameIndex(current_frame, Len(frames))
            IN  /\ current_frame' = c
                /\ displayed' = ShownObjects(displayed, c, frames)
                /\ status_log' = <<FrameStatus(c, frames)>>
    /\ last' = [op |-> "previousFrame", arg |-> undefined,
                result |-> undefined]
    /\ UNCHANGED <<event_identifier, is_playing, loaded, frames,
                   pending, timers, request,
                   delivered>>

(***************************************************************************)
(* pointCloudLoaded: the loader resolves a pending load and calls back.    *)
(***************************************************************************)
\* faulty variant: no result is taken for outdated
IsStaleNever(meta) == FALSE

\* faulty variant: only results tagged with a later event are outdated
IsStaleIfLater(meta) == event_identifier < meta.event_identifier

\* the result belongs to a superseded loading event
IsStale(meta) == event_identifier # meta.event_identifier

\* faulty variant: the scene counts as complete one frame early
SceneCompleteEarly(fs, meta) == Len(fs) >= meta.num_frames - 1

\* all frames of the scene are there
SceneComplete(fs, meta) == Len(fs) = meta.num_frames

\* the frame stored for a result
NewFrame(points, meta) ==
    [timestamp |-> meta.timestamp,
     path |-> meta.path,
     scene |-> meta.scene,
     points |-> points,
     duration |-> undefined]

\* current_frame right before the nextFrame() that shows the first frame
BeforeFirstFrame == -1

LoadedStatus(fs, meta) ==
    "Loaded " \o ToString(Len(fs)) \o " frames of "
              \o ToString(meta.num_frames) \o "."

pointCloudLoaded(req) ==
    /\ req \in pending
    /\ pending' = pending \ {req}
    /\ LET meta == req.meta
           points == PointsOf(req)
           pushed == Append(frames, NewFrame(points, meta))
       IN  IF IsStale(meta)
           THEN /\ UNCHANGED <<frames, loaded, current_frame, displayed,
                               delivered>>
                /\ status_log' = <<>>
                /\ last' = [op |-> "pointCloudLoaded", arg |-> undefined,
                            result |-> "stale"]
           ELSE IF ~SceneComplete(pushed, meta)
           THEN /\ frames' = pushed
                /\ delivered' = delivered \cup {meta.index}
                /\ status_log' = <<LoadedStatus(pushed, meta)>>
                /\ last' = [op |-> "pointCloudLoaded", arg |-> undefined,
                            result |-> "stored"]
                /\ UNCHANGED <<loaded, current_frame, displayed>>
           ELSE LET normalized == normalizeFrames(pushed)
                    \* this.current_frame = -1; this.loaded = true; this.nextFrame()
                    stepped == ~CannotStep(BeforeFirstFrame, TRUE)
                    c == IF stepped
                         THEN nextFrameIndex(BeforeFirstFrame, Len(normalized))
                         ELSE BeforeFirstFrame
                IN  /\ frames' = normalized
                    /\ delivered' = delivered \cup {meta.index}
                    /\ loaded' = TRUE
                    /\ current_frame' = c
                    /\ displayed' = IF stepped
                                    THEN ShownObjects(displayed, c, normalized)
                                    ELSE displayed
                    /\ status_log' = <<LoadedStatus(pushed, meta), "Ready.">>
                                     \o (IF stepped
                                         THEN <<FrameStatus(c, normalized)>>
                                         ELSE <<>>)
                    /\ last' = [op |-> "pointCloudLoaded", arg |-> undefined,
                                result |-> "complete"]
    /\ UNCHANGED <<event_identifier, is_playing, timers, request>>

(***************************************************************************)
(* play, createNextFrameTimer, playNextFrameCallback.                      *)
(***************************************************************************)
\* faulty variant: the duration in seconds handed to setTimeout as it is
MillisecondsNotScaled(seconds) == seconds

\* 1000 * seconds
Milliseconds(seconds) == IF IsNumber(seconds) THEN 1000 * seconds ELSE NaN

\* the timers armed by createNextFrameTimer: one; `delay` is the argument of
\* setTimeout, the other fields are history: the frame and the loading event
\* that were current when it was armed, and whether pause() ran since.
\* Outside the array this.frames[c] is undefined, reading its duration throws
\* and no timer is armed.
createNextFrameTimer(c, fs, eid) ==
    IF InRange(c, fs)
    THEN SetToBag({[delay |-> Milliseconds(FrameAt(fs, c).duration),
                    frame |-> c,
                    event_identifier |-> eid,
                    paused |-> FALSE]})
    ELSE EmptyBag

\* faulty variant: play() without the test of loaded
CannotPlayLengthOnly(fs, ld) == Len(fs) < 2

\* the guards of play() that return false
CannotPlay(fs, ld) == Len(fs) < 2 \/ ~ld

play ==
    /\ IF CannotPlay(frames, loaded)
       THEN /\ UNCHANGED <<is_playing, timers>>
            /\ last' = [op |-> "play", arg |-> undefined, result |-> FALSE]
       ELSE IF is_playing
       THEN /\ is_playing' = FALSE
            /\ timers' = pauseTimers(timers)
            /\ last' = [op |-> "play", arg |-> undefined, result |-> FALSE]
       ELSE /\ BagCardinality(timers) < MaxTimers
            /\ is_playing' = TRUE
            /\ timers' = timers (+)
                   createNextFrameTimer(current_frame, frames, event_identifier)
            /\ last' = [op |-> "play", arg |-> undefined, result |-> TRUE]
    /\ status_log' = <<>>
    /\ UNCHANGED <<event_identifier, loaded, frames, current_frame,
                   displayed, pending, request,
                   delivered>>

\* faulty variant: the timer callback without its createNextFrameTimer()
playNextFrameCallbackOnce(timer) ==
    /\ BagIn(timer, timers)
    /\ LET rest == timers (-) SetToBag({timer})
           stepped == ~CannotStep(current_frame, loaded)
           c == IF stepped THEN nextFrameIndex(current_frame, Len(frames))
                ELSE current_frame
       IN  IF ~is_playing
           THEN /\ timers' = rest
                /\ UNCHANGED <<current_frame, displayed>>
                /\ status_log' = <<>>
                /\ last' = [op |-> "playNextFrameCallback", arg |-> timer,
                            result |-> "exit"]
           ELSE /\ current_frame' = c
                /\ displayed' = IF stepped
                                THEN ShownObjects(displayed, c, frames)
                                ELSE displayed
                /\ status_log' = IF stepped THEN <<FrameStatus(c, frames)>>
                                 ELSE <<>>
                /\ timers' = rest
                /\ last' = [op |-> "playNextFrameCallback", arg |-> timer,
                            result |-> IF stepped THEN "advanced"
                                       ELSE "rearmed"]
    /\ UNCHANGED <<event_identifier, is_playing, loaded, frames, pending,
                   request, delivered>>

\* the timer fires
playNextFrameCallback(timer) ==
    /\ BagIn(timer, timers)
    /\ LET rest == timers (-) SetToBag({timer})
           \* this.nextFrame()
           stepped == ~CannotStep(current_frame, loaded)
           c == IF stepped THEN nextFrameIndex(current_frame, Len(frames))
                ELSE current_frame
           \* this.createNextFrameTimer()
           armed == createNextFrameTimer(c, frames, event_identifier)
       IN  IF ~is_playing
           THEN /\ timers' = rest
                /\ UNCHANGED <<current_frame, displayed>>
                /\ status_log' = <<>>
                /\ last' = [op |-> "playNextFrameCallback", arg |-> timer,
                            result |-> "exit"]
           ELSE /\ current_frame' = c
                /\ displayed' = IF stepped
                                THEN ShownObjects(displayed, c, frames)
                                ELSE displayed
                /\ status_log' = IF stepped THEN <<FrameStatus(c, frames)>>
                                 ELSE <<>>
                /\ timers' = rest (+) armed
                /\ last' = [op |-> "playNextFrameCallback", arg |-> timer,
                            result |-> IF armed = EmptyBag THEN "TypeError"
                                       ELSE IF stepped THEN "advanced"
                                       ELSE "rearmed"]
    /\ UNCHANGED <<event_identifier, is_playing, loaded, frames, pending,
                   request, delivered>>

(***************************************************************************)
(* The Player: commands of the controlling layer, load results and timer   *)
(* fires, one at a time (single-threaded event loop).                      *)
(***************************************************************************)
Next ==
    \/ \E name \in SceneNames, frames_in \in SceneFrameLists,
          type_identifier \in TypeIdentifiers :
            loadPointClouds(name, frames_in, type_identifier)
    \/ \E full_path \in SinglePaths : loadSinglePointCloud(full_path)
    \/ reset
    \/ \E req \in pending : pointCloudLoaded(req)
    \/ nextFrame
    \/ previousFrame
    \/ play
    \/ pause
    \/ \E timer \in BagToSet(timers) : playNextFrameCallback(timer)

Spec == Init /\ [][Next]_vars

\* setTimeout: a timer that is armed fires after its delay
TimerFires == \E timer \in BagToSet(timers) : playNextFrameCallback(timer)

\* the Player with timers that do fire
SpecFair == Spec /\ WF_vars(TimerFires)

(***************************************************************************)
(* Normalisation on its own: the Player right after loadPointClouds of a   *)
(* scene with arbitrary timestamps, all its loads pending, and the load    *)
(* results arriving in any order.                                          *)
(***************************************************************************)
NormTimestampLists ==
    UNION {[1..n -> 0..NormMaxTimestamp] : n \in 1..MaxFrames}

\* the loads loadPointClouds issues for a scene whose frames all have a cloud
IssuedLoads(name, frames_in, type_identifier, eid) ==
    loadLoop(name, frames_in, type_identifier, eid, 0,
             [issued |-> {}, status |-> <<>>, result |-> undefined_s]).issued

NormInit ==
    \E ts \in NormTimestampLists :
        /\ event_identifier = 1
        /\ is_playing = FALSE
        /\ loaded = FALSE
        /\ frames = <<>>
        /\ current_frame = undefined
        /\ displayed = <<>>
        /\ pending = IssuedLoads("s", SceneWith(ts), "color", 1)
        /\ timers = EmptyBag
        /\ status_log = <<"Loading point clouds.">>
                        \o [i \in 1..Len(ts) |-> "Loading point clouds..."]
        /\ request = [op |-> "loadPointClouds", name |-> "s",
                      frames |-> SceneWith(ts), type_identifier |-> "color",
                      issued |-> Len(ts)]
        /\ delivered = {}
        /\ last = [op |-> "loadPointClouds", arg |-> undefined,
                   result |-> undefined_s]

NormNext == \E req \in pending : pointCloudLoaded(req)

SpecNorm == NormInit /\ [][NormNext]_vars

(***************************************************************************)
(* Properties.                                                             *)
(***************************************************************************)
\* number of frames the active loading event asked for
ExpectedFrames ==
    IF request.op = "loadPointClouds" THEN Len(request.frames)
    ELSE IF request.op = "loadSinglePointCloud" THEN 1
    ELSE 0

\* C1: no frame of `frames` comes from a load of another loading event than
\* the current one: stale results are never appended, and after a second
\* scene load only results of the second load populate `frames`.
StaleNeverStored ==
    \A i \in 1..Len(frames) :
        frames[i].points.event_identifier = event_identifier

\* a stale result was just dropped while the scene of the second load is
\* complete
StaleDroppedWitness ==
    /\ last.op = "pointCloudLoaded"
    /\ last.result = "stale"
    /\ event_identifier = 2
    /\ loaded

\* C2: for a load of N >= 1 frames, loaded holds exactly when all N results
\* of the active loading event were delivered, and then frames has N elements.
LoadCompletion ==
    ExpectedFrames >= 1 =>
        /\ loaded <=> Cardinality(delivered) = ExpectedFrames
        /\ loaded => Len(frames) = ExpectedFrames

\* the last of MaxFrames results just completed the scene
LoadCompletionWitness ==
    /\ last.op = "pointCloudLoaded"
    /\ last.result = "complete"
    /\ ExpectedFrames = MaxFrames
    /\ Len(frames) = MaxFrames

\* C3 (as claimed): at most one playback timer is pending.
AtMostOneTimer == BagCardinality(timers) <= 1

\* C4 (as claimed): right after pause(), and right after the second of two
\* play() calls on a loaded scene of at least two frames, the Player is not
\* playing and no playback timer is pending.
PauseCancelsTimer ==
    (\/ last.op = "pause"
     \/ last.op = "play" /\ last.result = FALSE /\ ~CannotPlay(frames, loaded))
        => ~is_playing /\ timers = EmptyBag

\* C5 (as claimed): a timer that was armed before a pause() exits when it
\* fires: it does not advance current_frame and arms no timer.
PausedTimerExits ==
    (last.op = "playNextFrameCallback" /\ last.arg.paused)
        => last.result = "exit"

\* C6: playing implies loaded with at least two frames.
PlayingImpliesLoaded == is_playing => loaded /\ Len(frames) >= 2

\* play() just started the playback
PlayingWitness == is_playing /\ last.op = "play" /\ last.result = TRUE

\* C7: current_frame is defined exactly when loaded, and then it is an index
\* of frames.
CurrentFrameDefinedIffLoaded ==
    /\ current_frame # undefined <=> loaded
    /\ current_frame # undefined => InRange(current_frame, frames)

\* previousFrame() just wrapped from the first to the last of three frames
CurrentFrameWitness ==
    /\ last.op = "previousFrame"
    /\ loaded
    /\ Len(frames) = 3
    /\ current_frame = 2

\* C8: when loaded, frames is not empty and its timestamps do not decrease.
LoadedFramesSorted ==
    loaded =>
        /\ Len(frames) >= 1
        /\ \A i \in 1..(Len(frames) - 1) :
               frames[i].timestamp <= frames[i + 1].timestamp

\* a scene of MaxFrames frames is loaded whose first displayed frame is not
\* the first frame of the scene descriptor
LoadedFramesSortedWitness ==
    /\ loaded
    /\ Len(frames) = MaxFrames
    /\ frames[1].path # PathOfIndex(0)

\* timestamps and durations of the frames, in array order
TimestampsOf(fs) == [i \in 1..Len(fs) |-> fs[i].timestamp]
DurationsOf(fs) == [i \in 1..Len(fs) |-> fs[i].duration]

\* timestamps of the scene descriptor of the last loadPointClouds
RequestTimestamps ==
    [i \in 1..Len(request.frames) |-> request.frames[i].timestamp]

\* C9: after normalizeFrames the frames are sorted ascending, the first
\* timestamp is 0, every frame but the last lasts until the next timestamp
\* and the last frame lasts 1.0; timestamps [5, 3, 9] give timestamps
\* [0, 2, 6] and durations [2, 4, 1].
NormalizationResult ==
    loaded =>
        /\ \A i \in 1..(Len(frames) - 1) :
               /\ frames[i].timestamp <= frames[i + 1].timestamp
               /\ frames[i].duration =
                      frames[i + 1].timestamp - frames[i].timestamp
        /\ frames[1].timestamp = 0
        /\ frames[Len(frames)].duration = 1
        /\ RequestTimestamps = <<5, 3, 9>> =>
               /\ TimestampsOf(frames) = <<0, 2, 6>>
               /\ DurationsOf(frames) = <<2, 4, 1>>

\* the scene with timestamps [5, 3, 9] is loaded
NormalizationWitness == loaded /\ RequestTimestamps = <<5, 3, 9>>

\* the timestamps of the scene descriptor differ pairwise
DistinctTimestamps(ts) ==
    \A i, j \in 1..Len(ts) : i # j => ts[i] # ts[j]

MinOf(S) == CHOOSE m \in S : \A x \in S : m <= x

\* the frame that the k-th frame spec of the last loadPointClouds becomes,
\* computed from the scene descriptor alone
ExpectedFrame(k) ==
    LET ts == RequestTimestamps
        later == {ts[j] : j \in {j \in 1..Len(ts) : ts[j] > ts[k]}}
        path == request.frames[k].clouds.entries[request.type_identifier].path
    IN  [timestamp |-> ts[k] - MinOf({ts[j] : j \in 1..Len(ts)}),
         path |-> path,
         scene |-> request.name,
         points |-> [full_path |-> "pointclouds/" \o path,
                     event_identifier |-> event_identifier],
         duration |-> IF later = {} THEN 1 ELSE MinOf(later) - ts[k]]

\* position of the k-th frame spec in ascending order of timestamp
RankOf(ts, k) == Cardinality({j \in 1..Len(ts) : ts[j] < ts[k]}) + 1

\* C10: for a scene with pairwise distinct timestamps, the loaded frames are
\* determined by the scene descriptor alone, whatever the order in which the
\* results arrived: the frame specs in ascending order of their original
\* timestamps, which is the order in which the indices are played.
DisplayOrderIndependent ==
    (loaded /\ request.op = "loadPointClouds"
            /\ DistinctTimestamps(RequestTimestamps)) =>
        /\ Len(frames) = Len(request.frames)
        /\ \A k \in 1..Len(request.frames) :
               frames[RankOf(RequestTimestamps, k)] = ExpectedFrame(k)

\* a scene of MaxFrames frames with distinct timestamps, listed out of
\* order, is loaded
DisplayOrderWitness ==
    /\ loaded
    /\ request.op = "loadPointClouds"
    /\ RequestTimestamps = Swapped(MaxFrames)
    /\ last.op = "pointCloudLoaded"

\* the index after k calls of nextFrame() from index c of n frames
RECURSIVE StepsForward(_, _, _)
StepsForward(c, n, k) ==
    IF k = 0 THEN c ELSE StepsForward(nextFrameIndex(c, n), n, k - 1)

\* C11: in a loaded scene of N frames nextFrame() goes from the last frame
\* to frame 0 and previousFrame() from frame 0 to frame N-1: a step of
\* nextFrame() moves to the cyclic successor, a step of previousFrame() to
\* the cyclic predecessor; N steps forward from 0 return to 0, and from
\* every index forward-then-back and back-then-forward return to it.
WrapAroundStepping ==
    /\ [](loaded =>
            LET n == Len(frames)
            IN  /\ StepsForward(0, n, n) = 0
                /\ previousFrameIndex(0, n) = n - 1
                /\ \A i \in 0..(n - 1) :
                      /\ previousFrameIndex(nextFrameIndex(i, n), n) = i
                      /\ nextFrameIndex(previousFrameIndex(i, n), n) = i)
    /\ [][loaded =>
            LET n == Len(frames)
            IN  /\ last'.op = "nextFrame" =>
                      current_frame' = IF current_frame = n - 1 THEN 0
                                       ELSE current_frame + 1
                /\ last'.op = "previousFrame" =>
                      current_frame' = IF current_frame = 0 THEN n - 1
                                       ELSE current_frame - 1]_vars

\* nextFrame() has just wrapped from the last frame of the largest scene
WrapAroundWitness ==
    /\ last.op = "nextFrame"
    /\ loaded
    /\ Len(frames) = MaxFrames
    /\ current_frame = 0

\* the full paths of the frame specs with the earliest timestamp of the last
\* loadPointClouds
EarliestPaths ==
    LET ts == RequestTimestamps
        first == MinOf({ts[j] : j \in 1..Len(ts)})
    IN  {"pointclouds/" \o
           request.frames[k].clouds.entries[request.type_identifier].path :
             k \in {k \in 1..Len(ts) : ts[k] = first}}

\* C12: the step in which the last result of the active loading event
\* arrives takes the Player from not loaded to loaded and paused: after it
\* loaded holds, current_frame is 0, exactly the first frame is displayed,
\* which is a frame of the scene with the earliest timestamp, is_playing is
\* false and the step arms no timer.
LoadCompletionTransition ==
    [][(last'.op = "pointCloudLoaded" /\ last'.result = "complete") =>
          /\ ~loaded
          /\ loaded'
          /\ current_frame' = 0
          /\ displayed' = <<frames'[1].points>>
          /\ \A i \in 1..Len(frames') :
                frames'[1].timestamp <= frames'[i].timestamp
          /\ request.op = "loadPointClouds" =>
                displayed'[1].full_path \in EarliestPaths
          /\ ~is_playing'
          /\ timers' = timers]_vars

\* a scene whose first frame spec is not the earliest has just completed,
\* while a timer of an earlier scene is still pending
LoadCompletionTransitionWitness ==
    /\ last.op = "pointCloudLoaded"
    /\ last.result = "complete"
    /\ request.op = "loadPointClouds"
    /\ Len(frames) >= 2
    /\ RequestTimestamps[1] > RequestTimestamps[2]
    /\ timers # EmptyBag

\* the commands that open a new loading event
ResetOps == {"reset", "loadPointClouds", "loadSinglePointCloud"}

\* C13: event_identifier never decreases, and every loadPointClouds,
\* loadSinglePointCloud and reset() strictly increases it, empties frames,
\* clears loaded and is_playing and makes current_frame undefined; the
\* loads the call issues carry the incremented identifier.
ResetOpensNewEvent ==
    [][/\ event_identifier' >= event_identifier
       /\ last'.op \in ResetOps =>
             /\ event_identifier' > event_identifier
             /\ frames' = <<>>
             /\ ~loaded'
             /\ current_frame' = undefined
             /\ ~is_playing'
             /\ Cardinality(pending' \ pending) = request'.issued
             /\ \A req \in pending' \ pending :
                   req.meta.event_identifier = event_identifier']_vars

\* a second scene load has just been issued while a load of the first is
\* still pending
ResetOpensNewEventWitness ==
    /\ last.op = "loadPointClouds"
    /\ event_identifier = 2
    /\ \E req \in pending : req.meta.event_identifier = 2
    /\ \E req \in pending : req.meta.event_identifier = 1

\* C14: after loadPointClouds with an empty frame list the status reads
\* "No frames in scene.", no load was issued, and until the next reset or
\* scene load the Player is idle: loaded is false, frames is empty,
\* current_frame is undefined and nothing plays; every load still pending
\* belongs to an earlier loading event.
EmptySceneIdle ==
    (request.op = "loadPointClouds" /\ request.frames = <<>>) =>
        /\ ~loaded
        /\ frames = <<>>
        /\ current_frame = undefined
        /\ ~is_playing
        /\ request.issued = 0
        /\ \A req \in pending : req.meta.event_identifier < event_identifier
        /\ last.op = "loadPointClouds" =>
              status_log = <<"Loading point clouds.", "No frames in scene.">>

\* an empty scene was loaded over a scene that was still loading, and a
\* result of that scene has arrived since
EmptySceneIdleWitness ==
    /\ request.op = "loadPointClouds"
    /\ request.frames = <<>>
    /\ last.op = "pointCloudLoaded"
    /\ pending # {}

\* the commands that need a loaded scene
NavigationOps == {"nextFrame", "previousFrame", "play"}

\* C15: while loaded is false, nextFrame(), previousFrame() and play()
\* change nothing: frames, current_frame, is_playing, loaded and
\* event_identifier stay as they are, no timer is armed, nothing is
\* displayed, no status is written, and play() returns false.
InvalidNavigationNoOp ==
    [][(~loaded /\ last'.op \in NavigationOps) =>
          /\ UNCHANGED <<frames, current_frame, is_playing, loaded,
                         event_identifier, timers, displayed, pending>>
          /\ status_log' = <<>>
          /\ last'.op = "play" => last'.result = FALSE]_vars

\* play() was refused while two of three frames had arrived
InvalidNavigationWitness ==
    /\ last.op = "play"
    /\ last.result = FALSE
    /\ ~loaded
    /\ Len(frames) >= 2

\* C16: play() on a loaded scene. With fewer than 2 frames it changes
\* nothing and returns false. With 2 or more frames and not playing it sets
\* is_playing and arms one timer, for 1000 times the duration of the current
\* frame, and returns true; when already playing it does what pause() does,
\* clears is_playing, and returns false. In both cases of 2 or more frames
\* the result is the value of is_playing after the call, and play() never
\* changes the frames, the current frame or what is displayed.
PlayGuardAndResult ==
    [][(loaded /\ last'.op = "play") =>
          /\ UNCHANGED <<frames, current_frame, loaded, displayed,
                         event_identifier>>
          /\ Len(frames) < 2 =>
                /\ UNCHANGED <<is_playing, timers>>
                /\ last'.result = FALSE
          /\ (Len(frames) >= 2 /\ ~is_playing) =>
                /\ is_playing'
                /\ timers' = timers (+) SetToBag({
                      [delay |-> 1000 * frames[current_frame + 1].duration,
                       frame |-> current_frame,
                       event_identifier |-> event_identifier,
                       paused |-> FALSE]})
          /\ (Len(frames) >= 2 /\ is_playing) =>
                /\ ~is_playing'
                /\ BagCardinality(timers') = BagCardinality(timers)
          /\ Len(frames) >= 2 => last'.result = is_playing']_vars

\* play() has just started the playback at a frame other than the first,
\* one that lasts longer than 0 seconds
PlayGuardWitness ==
    /\ last.op = "play"
    /\ last.result = TRUE
    /\ current_frame > 0
    /\ frames[current_frame + 1].duration > 0
    /\ BagCardinality(timers) = 1

\* a load of an earlier loading event has not delivered a result. The
\* loader is given no error callback: a load that fails calls nothing, and
\* for the Player it is a load whose result never arrives.
EarlierLoadOutstanding ==
    \E req \in pending : req.meta.event_identifier < event_identifier

\* every load the active loading event issued has delivered its result
ActiveLoadsResolved ==
    \A req \in pending : req.meta.event_identifier # event_identifier

\* C17: as long as a load of the active loading event of N frames has not
\* delivered its result, loaded is false and nothing is shown or played;
\* and when an earlier loading event has a load that never delivered, a
\* later scene load of N' frames whose N' loads have all been issued and all
\* resolved is loaded with N' frames.
LoadFailureLocal ==
    /\ (ExpectedFrames >= 1 /\ Cardinality(delivered) < ExpectedFrames) =>
          /\ ~loaded
          /\ ~is_playing
          /\ current_frame = undefined
          /\ displayed = <<>>
    /\ (/\ EarlierLoadOutstanding
        /\ ExpectedFrames >= 1
        /\ request.issued = ExpectedFrames
        /\ ActiveLoadsResolved) =>
          /\ loaded
          /\ Len(frames) = ExpectedFrames

\* the second scene, of several frames, is loaded while a load of the
\* first scene never delivered
LoadFailureWitness ==
    /\ EarlierLoadOutstanding
    /\ event_identifier = 2
    /\ loaded
    /\ Len(frames) >= 2
    /\ Len(frames) = ExpectedFrames

\* C18: every timer fire that advances current_frame is the fire of a timer
\* that was armed for the frame current at the fire, by the loading event
\* current at the fire, and after the advance exactly one timer is armed,
\* the one for the duration of the new current frame.
TimerFiresForCurrentFrame ==
    [][(last'.op = "playNextFrameCallback" /\ last'.result = "advanced") =>
          /\ last'.arg.frame = current_frame
          /\ last'.arg.event_identifier = event_identifier
          /\ timers' = SetToBag({
                [delay |-> 1000 * frames'[current_frame' + 1].duration,
                 frame |-> current_frame',
                 event_identifier |-> event_identifier',
                 paused |-> FALSE]})]_vars

\* C19: the delivery of a result whose event_identifier differs from the
\* current one changes nothing: frames, loaded, current_frame, is_playing
\* and event_identifier stay as they are, nothing is displayed, no timer is
\* armed and no status is written. The result is as outdated after the
\* delivery as before, so delivering it again changes nothing either.
StaleResultNoOp ==
    [][(/\ last'.op = "pointCloudLoaded"
        /\ \E req \in pending \ pending' :
              req.meta.event_identifier # event_identifier) =>
          /\ UNCHANGED <<frames, loaded, current_frame, is_playing,
                         event_identifier, displayed, timers, delivered,
                         request>>
          /\ status_log' = <<>>
          /\ \A req \in pending \ pending' :
                req.meta.event_identifier # event_identifier']_vars

\* a result of the first scene has just arrived while the second scene is
\* playing
StaleResultNoOpWitness ==
    /\ last.op = "pointCloudLoaded"
    /\ last.result = "stale"
    /\ event_identifier = 2
    /\ is_playing
    /\ frames # <<>>

\* C20: the frames are normalized in the step in which loaded becomes true
\* and not before (until then no frame has a duration), and from then on
\* every step but a reset or scene load, that is play(), pause(),
\* nextFrame(), previousFrame(), a timer fire and the arrival of any
\* result, leaves frames as it is and the scene loaded.
FramesImmutableOnceLoaded ==
    /\ [](~loaded => \A i \in 1..Len(frames) : frames[i].duration = undefined)
    /\ [][(~loaded /\ loaded') =>
            /\ last'.op = "pointCloudLoaded"
            /\ \A i \in 1..Len(frames') : frames'[i].duration # undefined
            /\ \A i \in 1..(Len(frames') - 1) :
                  frames'[i].timestamp <= frames'[i + 1].timestamp]_vars
    /\ [][(loaded /\ last'.op \notin ResetOps) =>
            /\ frames' = frames
            /\ loaded']_vars

\* a result of the first scene has just arrived while a later frame of the
\* second scene, whose frame specs are not in the order of their
\* timestamps, is current
FramesImmutableWitness ==
    /\ loaded
    /\ event_identifier = 2
    /\ last.op = "pointCloudLoaded"
    /\ last.result = "stale"
    /\ current_frame > 0
    /\ request.op = "loadPointClouds"
    /\ RequestTimestamps[1] > RequestTimestamps[2]

\* C21: once the scene is loaded every frame has a duration that is a
\* number and not negative, whatever the timestamps of the scene are and in
\* whatever order the results arrived, and the timer that
\* createNextFrameTimer arms for any frame has a delay that is not negative.
DurationsNotNegative ==
    loaded =>
        \A i \in 1..Len(frames) :
            /\ IsNumber(frames[i].duration)
            /\ frames[i].duration >= 0
            /\ \A t \in BagToSet(createNextFrameTimer(i - 1, frames,
                                                       event_identifier)) :
                  t.delay >= 0

\* a scene with a duplicate timestamp, given in descending order, is loaded:
\* one frame lasts 0 seconds and one longer
DurationsNotNegativeWitness ==
    /\ loaded
    /\ Len(frames) = MaxFrames
    /\ RequestTimestamps[1] > RequestTimestamps[MaxFrames]
    /\ \E i \in 1..Len(frames) : frames[i].duration = 0
    /\ \E i \in 1..(Len(frames) - 1) : frames[i].duration > 0

\* positions (from 1) of the frame specs of the last loadPointClouds that
\* have no cloud at all
CloudlessPositions ==
    {k \in 1..Len(request.frames) :
        DOMAIN request.frames[k].clouds.entries = {}}

\* C22: after loadPointClouds of a scene whose first frame without clouds
\* is at position k, the call has ended without an exception, the status
\* reads "No clouds in frame.", exactly the loads of the frames before k
\* were issued, and the scene is never loaded, whatever results arrive.
EmptyCloudFrameAborts ==
    (request.op = "loadPointClouds" /\ CloudlessPositions # {}) =>
        /\ ~loaded
        /\ current_frame = undefined
        /\ ~is_playing
        /\ request.issued = MinOf(CloudlessPositions) - 1
        /\ last.op = "loadPointClouds" =>
              /\ last.result # "TypeError"
              /\ status_log # <<>>
              /\ status_log[Len(status_log)] = "No clouds in frame."

\* the scene is loaded with 2 or more frames and is playing
PlayingScene == loaded /\ is_playing /\ Len(frames) >= 2

\* the commands the claim rules out once the scene is playing: pause(),
\* play() and whatever opens a new loading event
PlaybackEndingOps ==
    {"pause", "play", "loadPointClouds", "loadSinglePointCloud", "reset"}

\* if from some state on a scene of n frames is playing and none of the
\* commands `ops` occurs, every frame index below n is current again and
\* again
LoopsUnlessOneOf(ops) ==
    \A n \in 2..MaxFrames : \A i \in 0..(n - 1) :
        <>(PlayingScene /\ Len(frames) = n /\ [](last.op \notin ops))
            => []<>(current_frame = i)

\* C23 as stated: if from some state on the scene is playing and no
\* pause(), play() or scene load (reset() included) occurs, and the timers
\* fire, every frame index is shown again and again.
PlaybackLoopsForeverAsStated == LoopsUnlessOneOf(PlaybackEndingOps)

\* the commands that end the playback or step against it
PlaybackDisturbingOps == PlaybackEndingOps \cup {"previousFrame"}

\* C23, amended: if from some state on the scene is playing and no
\* pause(), play(), scene load, reset() or previousFrame() occurs, and the
\* timers fire, every frame index is shown again and again; every timer
\* fire that changes the frame moves to the cyclic successor (after the last
\* frame comes frame 0), and neither a timer fire nor the arrival of a
\* result ends the playback.
PlaybackLoopsForever ==
    /\ LoopsUnlessOneOf(PlaybackDisturbingOps)
    /\ [][(last'.op = "playNextFrameCallback"
              /\ current_frame' # current_frame) =>
            current_frame' = IF current_frame = Len(frames) - 1 THEN 0
                             ELSE current_frame + 1]_vars
    /\ [][(is_playing /\ last'.op \in {"playNextFrameCallback",
                                         "pointCloudLoaded"}) =>
            is_playing']_vars

\* a timer fire has just taken the playing scene from its last frame back to
\* frame 0
PlaybackLoopsWitness ==
    /\ PlayingScene
    /\ Len(frames) = MaxFrames
    /\ last.op = "playNextFrameCallback"
    /\ last.result = "advanced"
    /\ current_frame = 0

\* C24: a timer armed before a reset() or scene load, when it fires after
\* it, neither advances current_frame nor arms a further timer: its callback
\* exits, and leaves the frame and the other timers as they are.
OldTimerCancelledByReset ==
    [][(/\ last'.op = "playNextFrameCallback"
        /\ last'.arg.event_identifier < event_identifier) =>
          /\ last'.result = "exit"
          /\ current_frame' = current_frame
          /\ BagCardinality(timers') = BagCardinality(timers) - 1]_vars

====
